---- MODULE Spec2Model ----
(***************************************************************************)
(* Model of the titanic-mlflow preprocessing code:                         *)
(*   src/src/transforms.py   the five DataFrame transforms                 *)
(*   src/src/pipeline.py     create_pipeline (sklearn Pipeline of          *)
(*                           FunctionTransformer steps)                    *)
(*   src/src/ingest_split.py ingest_split (read, int->float, split)        *)
(*                                                                         *)
(* A DataFrame is a record: the name of its index, the index labels, the   *)
(* ordered column names and, per column, the sequence of cell values.      *)
(* Cell values are tagged: S(chars) a str, I(n) an int, F(t) a float given *)
(* in tenths (F(285) is 28.5), NaN the missing value.  A Python call ends  *)
(* by returning a DataFrame, by returning None, or by raising.             *)
(* DataFrames of the model have at least one row.                          *)
(***************************************************************************)
EXTENDS Integers, Sequences, FiniteSets, TLC

VARIABLES
    df,         \* transforms: the DataFrame handed to the transform
    call,       \* transforms: the call made (function and keyword arguments)
    ret,        \* transforms: what the call returned or raised
    log,        \* the loguru records written so far
    pipeline_parameters,  \* pipeline: the dict given to create_pipeline
    pipeline,   \* pipeline: the steps of the Pipeline create_pipeline built
    X,          \* pipeline: the table given to fit_transform
    Xt,         \* pipeline: the value handed from step to step
    pos,        \* pipeline: the step fit_transform runs next
    trace,      \* pipeline: the steps run so far, with their input and output
    result,     \* pipeline: what fit_transform returned or raised
    pc,         \* pipeline: where the caller of the pipeline stands
    files,      \* ingest: the tables the two csv paths hold
    target,     \* ingest: the name of the target column
    ingest_split_parameters,  \* ingest: train_size, test_size, random_state
    mlflow_params,  \* ingest: the parameters reported to mlflow
    df_train,   \* ingest: the primary table as read and converted
    df_holdout, \* ingest: the holdout table as read
    Xy,         \* ingest: the features X, the target y and X_holdout
    returned,   \* ingest: the 5-tuple ingest_split returned, or what it raised
    ipc         \* ingest: the statement ingest_split runs next

tvars == <<df, call, ret>>
pvars == <<pipeline_parameters, pipeline, X, Xt, pos, trace, result, pc>>
ivars == <<files, target, ingest_split_parameters, mlflow_params, df_train,
           df_holdout, Xy, returned, ipc>>
vars == <<tvars, pvars, ivars, log>>

----------------------------------------------------------------------------
\* Bounds of the model

\* most rows of a DataFrame handed to a transform
MaxRows == 2

\* longest text of the source column enumerated exhaustively
MaxLen == 5

\* the primary table has 1..MaxSplitRows rows, or ScenarioRows rows
MaxSplitRows == 4
ScenarioRows == 100

\* random_state is 0..MaxSeed; train_size and test_size as counts are
\* 1..MaxCount
MaxSeed == 5
MaxCount == 2

----------------------------------------------------------------------------
\* Python values

S(s) == [k |-> "str", v |-> s]
I(n) == [k |-> "int", v |-> n]
F(t) == [k |-> "float", v |-> t]
NaN == [k |-> "nan", v |-> 0]
None == [k |-> "None"]
Raised(e) == [k |-> "raise", exc |-> e]

IsRaised(x) == x.k = "raise"
IsDataFrame(x) == x.k = "DataFrame"

DataFrame(index_name, index, columns, data) ==
    [k |-> "DataFrame", index_name |-> index_name, index |-> index,
     columns |-> columns, data |-> data]

Range(s) == {s[i] : i \in 1..Len(s)}
ColSet(d) == Range(d.columns)
HasCol(d, c) == c \in ColSet(d)
NRows(d) == Len(d.index)

\* the default index pandas gives a table read from a file: 0, 1, 2, ...
NoName == "<None>"
RangeIndex(n) == [i \in 1..n |-> I(i - 1)]

\* int(x) of Python: truncation toward zero of a float, identity on an int,
\* ValueError on text that is no numeral
py_int(x) ==
    CASE x.k = "int" -> x
      [] x.k = "float" -> I(IF x.v >= 0 THEN x.v \div 10 ELSE -((-x.v) \div 10))
      [] x.k = "nan" -> Raised("ValueError")
      [] OTHER -> Raised("ValueError")

\* pd.isnull(x)
pd_isnull(x) == x.k = "nan"

----------------------------------------------------------------------------
\* pandas operations the transforms call

\* df.set_index(col, drop=True)
pd_set_index_keep(d, col) ==
    IF ~IsDataFrame(d) THEN Raised("AttributeError")
    ELSE IF ~HasCol(d, col) THEN Raised("KeyError")
    ELSE DataFrame(col, d.data[col], d.columns, d.data)

pd_set_index(d, col) ==
    IF ~IsDataFrame(d) THEN Raised("AttributeError")
    ELSE IF ~HasCol(d, col) THEN Raised("KeyError")
    ELSE DataFrame(col, d.data[col],
                   SelectSeq(d.columns, LAMBDA c : c # col),
                   [c \in ColSet(d) \ {col} |-> d.data[c]])

\* df.drop(labels=labels, axis=0): the labels name rows, not columns
pd_drop_axis0(d, labels) ==
    IF ~IsDataFrame(d) THEN Raised("AttributeError")
    ELSE IF \E c \in Range(labels) : S(c) \notin Range(d.index)
         THEN Raised("KeyError")
    ELSE LET keep == {i \in 1..NRows(d) : d.index[i] \notin {S(c) : c \in Range(labels)}}
             pick(xs) == SelectSeq(xs, LAMBDA x : \E i \in keep : xs[i] = x)
         IN  DataFrame(d.index_name, pick(d.index), d.columns,
                       [c \in ColSet(d) |-> d.data[c]])

\* df.drop(labels=labels, axis=1)

pd_drop(d, labels) ==
    IF ~IsDataFrame(d) THEN Raised("AttributeError")
    ELSE IF \E c \in Range(labels) : ~HasCol(d, c) THEN Raised("KeyError")
    ELSE DataFrame(d.index_name, d.index,
                   SelectSeq(d.columns, LAMBDA c : c \notin Range(labels)),
                   [c \in ColSet(d) \ Range(labels) |-> d.data[c]])

\* df_out[col] = series, on a copy of d
pd_setitem(d, col, series) ==
    DataFrame(d.index_name, d.index,
              IF HasCol(d, col) THEN d.columns ELSE Append(d.columns, col),
              [c \in ColSet(d) \cup {col} |->
                  IF c = col THEN series ELSE d.data[c]])

\* Series.replace(codes) with a dict: a value equal to a key becomes that
\* key's value, every other value is kept
series_replace(x, codes) == IF x \in DOMAIN codes THEN codes[x] ELSE x

Series(xs) == [k |-> "Series", v |-> xs]

\* df.apply(f, axis=1), out[i] being f's result on row i: the Series of the
\* per-row results, or the first exception a row raised
pd_apply(d, out) ==
    LET bad == {i \in 1..NRows(d) : IsRaised(out[i])}
    IN  IF bad = {} THEN Series(out)
        ELSE out[CHOOSE i \in bad : \A j \in bad : i <= j]

----------------------------------------------------------------------------
\* re.search(r' ([A-Za-z]+)\.', text)

Letters ==
    {"A","B","C","D","E","F","G","H","I","J","K","L","M","N","O","P","Q","R",
     "S","T","U","V","W","X","Y","Z","a","b","c","d","e","f","g","h","i","j",
     "k","l","m","n","o","p","q","r","s","t","u","v","w","x","y","z"}

\* how many letters stand in text from position j on
RECURSIVE LetterRun(_, _)
LetterRun(text, j) ==
    IF j > Len(text) \/ text[j] \notin Letters THEN 0
    ELSE 1 + LetterRun(text, j + 1)

\* the same for a pattern that lacks the leading space
MatchLensNoSpace(text, i) ==
    {n \in 1..LetterRun(text, i + 1) :
        i + n + 1 <= Len(text) /\ text[i + n + 1] = "."}

\* the lengths n of [A-Za-z]+ for which the pattern matches with its space
\* at position i
MatchLens(text, i) ==
    IF i > Len(text) \/ text[i] # " " THEN {}
    ELSE {n \in 1..LetterRun(text, i + 1) :
            i + n + 1 <= Len(text) /\ text[i + n + 1] = "."}

\* group(1) of the leftmost match from position i on (the + is greedy), or
\* None when there is no match
RECURSIVE re_search_from(_, _)
re_search_from(text, i) ==
    IF i > Len(text) THEN None
    ELSE LET ns == MatchLens(text, i) IN
         IF ns # {}
         THEN LET n == CHOOSE m \in ns : \A o \in ns : o <= m
              IN  S(SubSeq(text, i + 1, i + n))
         ELSE re_search_from(text, i + 1)

re_search(text) == re_search_from(text, 1)

----------------------------------------------------------------------------
\* src/src/transforms.py
\* A transform gives [ret |-> what it returns or raises, log |-> its records].

Info(f) == "Running " \o f \o "()"
Error(f) == "Error in " \o f \o "()"

set_df_index(d, df_index_col) ==
    LET r == pd_set_index(d, df_index_col) IN
    IF IsRaised(r)
    THEN \* the except clause logs; return df_out then reads an unbound name
         [ret |-> Raised("UnboundLocalError"),
          log |-> <<Info("set_df_index"), Error("set_df_index")>>]
    ELSE [ret |-> r, log |-> <<Info("set_df_index")>>]

drop_columns(d, drop_column_names) ==
    LET r == pd_drop(d, drop_column_names) IN
    IF IsRaised(r)
    THEN [ret |-> None, log |-> <<Info("drop_columns"), Error("drop_columns")>>]
    ELSE [ret |-> r, log |-> <<Info("drop_columns")>>]

extract_title(d, i, source_column) ==
    IF ~HasCol(d, source_column) THEN Raised("KeyError")
    ELSE LET x == d.data[source_column][i] IN
         IF x.k # "str" THEN Raised("TypeError")
         ELSE LET title_search == re_search(x.v) IN
              IF title_search # None THEN title_search ELSE S(<<>>)

create_title_cat(d, source_column, dest_column, title_codes) ==
    LET titles == IF ~IsDataFrame(d) THEN Raised("AttributeError")
                  ELSE pd_apply(d, [i \in 1..NRows(d) |->
                                        extract_title(d, i, source_column)])
    IN  IF IsRaised(titles)
        THEN [ret |-> None,
              log |-> <<Info("create_title_cat"), Error("create_title_cat")>>]
        ELSE [ret |-> pd_setitem(d, dest_column,
                         [i \in 1..NRows(d) |->
                             series_replace(titles.v[i], title_codes)]),
              log |-> <<Info("create_title_cat")>>]

infer_age(d, i, source_column, title_column, age_codes) ==
    IF ~HasCol(d, source_column) THEN Raised("KeyError")
    ELSE LET x == d.data[source_column][i] IN
         IF pd_isnull(x)
         THEN IF DOMAIN age_codes = {} THEN Raised("UnboundLocalError")
              ELSE IF ~HasCol(d, title_column) THEN Raised("KeyError")
              ELSE LET t == d.data[title_column][i] IN
                   IF t \in DOMAIN age_codes THEN age_codes[t]
                   ELSE Raised("UnboundLocalError")
         ELSE py_int(x)

impute_age(d, source_column, title_column, age_codes) ==
    LET ages == IF ~IsDataFrame(d) THEN Raised("AttributeError")
                ELSE pd_apply(d, [i \in 1..NRows(d) |->
                        infer_age(d, i, source_column, title_column, age_codes)])
    IN  IF IsRaised(ages)
        THEN [ret |-> None, log |-> <<Info("impute_age"), Error("impute_age")>>]
        ELSE [ret |-> pd_setitem(d, source_column, ages.v),
              log |-> <<Info("impute_age")>>]


\* the value of a cell in tenths, for the row sum
Tenths(x) == IF x.k = "float" THEN x.v ELSE IF x.k = "int" THEN 10 * x.v ELSE 0

RECURSIVE SumTenths(_)
SumTenths(xs) == IF xs = <<>> THEN 0 ELSE Tenths(Head(xs)) + SumTenths(Tail(xs))

\* row[source_columns].sum() + 1: Series.sum skips missing values
family_size(d, i, source_columns) ==
    IF \E c \in Range(source_columns) : ~HasCol(d, c) THEN Raised("KeyError")
    ELSE LET xs == [j \in 1..Len(source_columns) |-> d.data[source_columns[j]][i]]
         IN  IF \E j \in 1..Len(xs) : xs[j].k = "str" THEN Raised("TypeError")
             ELSE IF \A j \in 1..Len(xs) : xs[j].k = "int"
                  THEN I(SumTenths(xs) \div 10 + 1)
                  ELSE F(SumTenths(xs) + 10)

create_family_size(d, source_columns, dest_column) ==
    LET sizes == IF ~IsDataFrame(d) THEN Raised("AttributeError")
                 ELSE pd_apply(d, [i \in 1..NRows(d) |->
                                       family_size(d, i, source_columns)])
    IN  IF IsRaised(sizes)
        THEN [ret |-> None,
              log |-> <<Info("create_family_size"), Error("create_family_size")>>]
        ELSE [ret |-> pd_setitem(d, dest_column, sizes.v),
              log |-> <<Info("create_family_size")>>]

----------------------------------------------------------------------------
\* Inputs of the model

Str2(a, b) == S(<<a, b>>)

\* "B, Mr. O" and "X r. M.": a text with one title, a text with two
SampleNames ==
    {S(<<"B", ",", " ", "M", "r", ".", " ", "O">>),
     S(<<"X", " ", "r", ".", " ", "M", ".">>)}

\* missing, 28.5 and -1.5
SampleAges == {NaN, F(285), F(-15)}

\* a category the age codes know and a raw title they may not know
SampleTitleCats == {Str2("g", "m"), S(<<"r">>)}

AllColumns == <<"PassengerId", "Name", "Age", "TitleCat", "SibSp">>

MkTable(n, names, ages, cats) ==
    DataFrame(NoName, RangeIndex(n), AllColumns,
        [c \in Range(AllColumns) |->
            CASE c = "PassengerId" -> [i \in 1..n |-> I(i)]
              [] c = "Name" -> names
              [] c = "Age" -> ages
              [] c = "TitleCat" -> cats
              [] OTHER -> [i \in 1..n |-> I(i - 1)]])

SampleTables ==
    UNION {{MkTable(n, names, ages, cats) :
                names \in [1..n -> SampleNames], ages \in [1..n -> SampleAges],
                cats \in [1..n -> SampleTitleCats]} : n \in 1..MaxRows}

\* every text of at most MaxLen characters over a space, a period and two letters
Alphabet == {" ", ".", "M", "r"}
Texts == UNION {[1..m -> Alphabet] : m \in 0..MaxLen}

TextTables ==
    {DataFrame(NoName, RangeIndex(1), <<"PassengerId", "Name">>,
        [c \in {"PassengerId", "Name"} |->
            IF c = "Name" THEN <<S(t)>> ELSE <<I(1)>>]) : t \in Texts}

EmptyDict == [x \in {} |-> x]

TitleCodeChoices ==
    {(S(<<"M", "r">>) :> Str2("g", "m")) @@ (S(<<"M">>) :> Str2("g", "f")),
     (S(<<"M">>) :> S(<<"r">>)) @@ (S(<<"r">>) :> Str2("g", "m"))
        @@ (S(<<>>) :> Str2("n", "o")),
     EmptyDict}

AgeCodeChoices ==
    {(Str2("g", "m") :> I(30)),
     (Str2("g", "m") :> I(30)) @@ (S(<<"r">>) :> I(5)),
     EmptyDict}

\* The keyword arguments tried.  A TextTables table has no Age, TitleCat and
\* SibSp column, so each choice that names one is also tried on a table that
\* lacks it.
IndexColChoices == {"PassengerId", "Age"}
DropChoices == {<<"Name">>, <<"Age", "Name">>, <<>>}
SourceChoices == {"Name", "Age"}
DestChoices == {"TitleCat", "Title"}
AgeColChoices == {"Age", "Name"}
TitleColChoices == {"TitleCat", "Missing"}
SumChoices == {<<"SibSp">>, <<"SibSp", "Age">>, <<"Name">>}

----------------------------------------------------------------------------
\* Calls of the transforms, one call per behaviour

NoCall == [f |-> "none"]
Pending == [k |-> "pending"]

PipelineIdle ==
    /\ pipeline_parameters = None
    /\ pipeline = None
    /\ X = None
    /\ Xt = None
    /\ pos = 0
    /\ trace = <<>>
    /\ result = Pending
    /\ pc = "idle"

TransformsIdle ==
    /\ df = None
    /\ call = NoCall
    /\ ret = Pending

IngestIdle ==
    /\ files = None
    /\ target = None
    /\ ingest_split_parameters = None
    /\ mlflow_params = None
    /\ df_train = None
    /\ df_holdout = None
    /\ Xy = None
    /\ returned = Pending
    /\ ipc = "idle"

Init ==
    /\ df \in SampleTables \cup TextTables
    /\ call = NoCall
    /\ ret = Pending
    /\ log = <<>>
    /\ PipelineIdle
    /\ IngestIdle

Returns(c, r) ==
    /\ call = NoCall
    /\ call' = c
    /\ ret' = r.ret
    /\ log' = log \o r.log
    /\ UNCHANGED <<df, pvars, ivars>>

CallSetDfIndex ==
    \E col \in IndexColChoices :
        Returns([f |-> "set_df_index", df_index_col |-> col],
                set_df_index(df, col))

CallDropColumns ==
    \E names \in DropChoices :
        Returns([f |-> "drop_columns", drop_column_names |-> names],
                drop_columns(df, names))

CallCreateTitleCat ==
    \E src \in SourceChoices, dst \in DestChoices, codes \in TitleCodeChoices :
        Returns([f |-> "create_title_cat", source_column |-> src,
                 dest_column |-> dst, title_codes |-> codes],
                create_title_cat(df, src, dst, codes))

CallImputeAge ==
    \E src \in AgeColChoices, cat \in TitleColChoices, codes \in AgeCodeChoices :
        Returns([f |-> "impute_age", source_column |-> src,
                 title_column |-> cat, age_codes |-> codes],
                impute_age(df, src, cat, codes))

CallCreateFamilySize ==
    \E cols \in SumChoices :
        Returns([f |-> "create_family_size", source_columns |-> cols,
                 dest_column |-> "FamilySize"],
                create_family_size(df, cols, "FamilySize"))

Next ==
    \/ CallSetDfIndex
    \/ CallDropColumns
    \/ CallCreateTitleCat
    \/ CallImputeAge
    \/ CallCreateFamilySize

Spec == Init /\ [][Next]_vars

----------------------------------------------------------------------------
\* src/src/pipeline.py

\* the same steps with the imputation bound before the title step
create_pipeline_swapped(parameters) ==
    <<[name |-> "Set dataframe index", func |-> "set_df_index",
       kw_args |-> parameters.set_df_index_kw_args],
      [name |-> "Impute missing Age values", func |-> "impute_age",
       kw_args |-> parameters.impute_age_kw_args],
      [name |-> "Create title_cat column", func |-> "create_title_cat",
       kw_args |-> parameters.create_title_cat_kw_args],
      [name |-> "Drop columns", func |-> "drop_columns",
       kw_args |-> parameters.drop_columns_kw_args]>>

\* Pipeline([...]) of four FunctionTransformer(func, kw_args) steps
create_pipeline(parameters) ==
    <<[name |-> "Set dataframe index", func |-> "set_df_index",
       kw_args |-> parameters.set_df_index_kw_args],
      [name |-> "Create title_cat column", func |-> "create_title_cat",
       kw_args |-> parameters.create_title_cat_kw_args],
      [name |-> "Impute missing Age values", func |-> "impute_age",
       kw_args |-> parameters.impute_age_kw_args],
      [name |-> "Drop columns", func |-> "drop_columns",
       kw_args |-> parameters.drop_columns_kw_args]>>

\* FunctionTransformer.fit_transform(x): func(x, **kw_args)
FunctionTransformer(step, x) ==
    LET kw == step.kw_args IN
    CASE step.func = "set_df_index" -> set_df_index(x, kw.df_index_col)
      [] step.func = "create_title_cat" ->
            create_title_cat(x, kw.source_column, kw.dest_column, kw.title_codes)
      [] step.func = "impute_age" ->
            impute_age(x, kw.source_column, kw.title_column, kw.age_codes)
      [] step.func = "drop_columns" -> drop_columns(x, kw.drop_column_names)

\* the tables given to the pipeline: raw passengers, no TitleCat column yet
RawTables ==
    {pd_drop(t, <<"TitleCat", "SibSp">>) : t \in SampleTables}

ParameterChoices ==
    [set_df_index_kw_args : [df_index_col : {"PassengerId", "Age", "Missing"}],
     create_title_cat_kw_args :
        [source_column : {"Name", "Missing"}, dest_column : {"TitleCat"},
         title_codes : {(S(<<"M", "r">>) :> Str2("g", "m"))}],
     impute_age_kw_args :
        [source_column : {"Age"}, title_column : {"TitleCat"},
         age_codes : {(Str2("g", "m") :> I(30)),
                      (Str2("g", "m") :> I(30)) @@ (S(<<"r">>) :> I(5))}],
     drop_columns_kw_args :
        [drop_column_names : {<<"Name">>, <<"Name", "Missing">>}]]

InitPipeline ==
    /\ TransformsIdle
    /\ IngestIdle
    /\ log = <<>>
    /\ pipeline_parameters \in ParameterChoices
    /\ pipeline = None
    /\ X \in RawTables
    /\ Xt = None
    /\ pos = 0
    /\ trace = <<>>
    /\ result = Pending
    /\ pc = "start"

\* pipeline = create_pipeline(pipeline_parameters)
CreatePipeline ==
    /\ pc = "start"
    /\ pipeline' = create_pipeline(pipeline_parameters)
    /\ pc' = "built"
    /\ UNCHANGED <<tvars, ivars, log, pipeline_parameters, X, Xt, pos, trace, result>>

\* pipeline.fit_transform(X) is entered
FitTransform ==
    /\ pc = "built"
    /\ Xt' = X
    /\ pos' = 1
    /\ pc' = "running"
    /\ UNCHANGED <<tvars, ivars, log, pipeline_parameters, pipeline, X, trace, result>>

\* fit_transform runs its next step on Xt; an exception of the step ends it
FitTransformStep ==
    /\ pc = "running"
    /\ pos <= Len(pipeline)
    /\ LET step == pipeline[pos]
           r == FunctionTransformer(step, Xt)
       IN  /\ trace' = Append(trace, [func |-> step.func, input |-> Xt,
                                      output |-> r.ret,
                                      failed |-> Error(step.func) \in Range(r.log)])
           /\ log' = log \o r.log
           /\ IF IsRaised(r.ret)
              THEN /\ result' = r.ret
                   /\ pc' = "raised"
                   /\ UNCHANGED <<Xt, pos>>
              ELSE /\ Xt' = r.ret
                   /\ pos' = pos + 1
                   /\ UNCHANGED <<result, pc>>
    /\ UNCHANGED <<tvars, ivars, pipeline_parameters, pipeline, X>>

\* fit_transform returns the output of the last step
FitTransformReturn ==
    /\ pc = "running"
    /\ pos > Len(pipeline)
    /\ result' = Xt
    /\ pc' = "returned"
    /\ UNCHANGED <<tvars, ivars, log, pipeline_parameters, pipeline, X, Xt, pos, trace>>

NextPipeline ==
    \/ CreatePipeline
    \/ FitTransform
    \/ FitTransformStep
    \/ FitTransformReturn

SpecPipeline == InitPipeline /\ [][NextPipeline]_vars

----------------------------------------------------------------------------
\* Double-precision arithmetic of train_size * n_samples and
\* test_size * n_samples.  A natural number is five limbs of 15 bits, least
\* significant first; a float is m * 2^(-e) with m below 2^53.

Base == 2^15
Limbs == 1..5
Pow2(e) == [i \in Limbs |-> IF i = e \div 15 + 1 THEN 2^(e % 15) ELSE 0]

\* the value of a one-element set: names a computed value so that it is
\* computed once where it is used several times
The(set) == CHOOSE v \in set : TRUE

RECURSIVE MulFrom(_, _, _, _)
MulFrom(a, m, i, carry) ==
    IF i > Len(a) THEN <<>>
    ELSE LET t == (a[i] * m) + carry
         IN  <<t % Base>> \o MulFrom(a, m, i + 1, t \div Base)

\* a * m and a + 1, for a small m
MulSmall(a, m) == The({MulFrom(v, m, 1, 0) : v \in {a}})
AddOne(a) == The({MulFrom(v, 1, 1, 1) : v \in {a}})

\* quotient and remainder of a by a small d, from the top limb down
RECURSIVE DivFrom(_, _, _, _, _)
DivFrom(a, d, i, rem, q) ==
    IF i = 0 THEN [q |-> q, r |-> rem]
    ELSE The({DivFrom(a, d, i - 1, t % d, <<t \div d>> \o q) :
                t \in {rem * Base + a[i]}})

DivSmall(a, d) == The({DivFrom(v, d, Len(v), 0, <<>>) : v \in {a}})

RECURSIVE GeqFrom(_, _, _)
GeqFrom(a, b, i) ==
    IF i = 0 THEN TRUE
    ELSE IF a[i] # b[i] THEN a[i] > b[i]
    ELSE GeqFrom(a, b, i - 1)

Geq(a, b) == \E u \in {a}, v \in {b} : GeqFrom(u, v, Len(u))

\* a / d rounded to the nearest natural, a tie to the even one
DivRound(a, d) ==
    The({IF 2 * x.r > d \/ (2 * x.r = d /\ x.q[1] % 2 = 1)
         THEN AddOne(x.q) ELSE x.q : x \in {DivSmall(a, d)}})

\* floor(a / 2^e), and whether the division is exact
RECURSIVE ShiftFrom(_, _, _)
ShiftFrom(a, e, exact) ==
    IF e = 0 THEN [q |-> a, exact |-> exact]
    ELSE The({ShiftFrom(x.q, (IF e > 14 THEN e - 14 ELSE 0), exact /\ x.r = 0) :
                x \in {DivSmall(a, 2^(IF e > 14 THEN 14 ELSE e))}})

ShiftRight(a, e) == ShiftFrom(a, e, TRUE)

ToInt(a) == a[1] + Base * a[2]

\* m holds 53 significant bits
IsNormal(m) == Geq(m, Pow2(52)) /\ ~Geq(m, Pow2(53))

\* the double nearest to h/100, for 0 < h < 100
py_float(h) ==
    The({[m |-> DivRound(MulSmall(Pow2(e), h), 100), e |-> e] :
            e \in {x \in 53..60 :
                     IsNormal(DivSmall(MulSmall(Pow2(x), h), 100).q)}})

\* p * 2^(-e) rounded to 53 significant bits
RoundToDouble(p, e) ==
    The({[m |-> MulSmall(DivRound(p, 2^s), 2^s), e |-> e] :
            s \in {t \in 0..8 : Geq(p, Pow2(52 + t)) /\ ~Geq(p, Pow2(53 + t))}})

\* x * n in double precision, for an integer n >= 1
float_mul(x, n) == The({RoundToDouble(p, x.e) : p \in {MulSmall(x.m, n)}})

py_floor(x) == The({ToInt(ShiftRight(v.m, v.e).q) : v \in {x}})
py_ceil(x) ==
    The({ToInt(r.q) + (IF r.exact THEN 0 ELSE 1) :
            r \in {ShiftRight(v.m, v.e) : v \in {x}}})

----------------------------------------------------------------------------
\* sklearn.model_selection.train_test_split, as ingest_split calls it

\* a size is None, a count I(c), or Fraction(h): the float h/100
Fraction(h) == [k |-> "fraction", v |-> h]

BadSize(size, n_samples) ==
    \/ size.k = "int" /\ (size.v >= n_samples \/ size.v <= 0)
    \/ size.k = "fraction" /\ (size.v <= 0 \/ size.v >= 100)

\* the row counts [n_train, n_test] of the split, or the ValueError
validate_shuffle_split(n_samples, test_size_given, train_size) ==
    LET test_size == IF test_size_given = None /\ train_size = None
                     THEN Fraction(25) ELSE test_size_given
        n_test_given == IF test_size.k = "fraction"
                        THEN py_ceil(float_mul(py_float(test_size.v), n_samples))
                        ELSE test_size.v
        n_train_given == IF train_size.k = "fraction"
                         THEN py_floor(float_mul(py_float(train_size.v), n_samples))
                         ELSE train_size.v
        n_train == IF train_size = None THEN n_samples - n_test_given
                   ELSE n_train_given
        n_test == IF train_size # None /\ test_size = None
                  THEN n_samples - n_train_given ELSE n_test_given
    IN  IF test_size # None /\ BadSize(test_size, n_samples)
        THEN Raised("ValueError")
        ELSE IF train_size # None /\ BadSize(train_size, n_samples)
        THEN Raised("ValueError")
        ELSE IF /\ train_size.k = "fraction" /\ test_size.k = "fraction"
                /\ train_size.v + test_size.v > 100
        THEN Raised("ValueError")
        ELSE IF n_train + n_test > n_samples THEN Raised("ValueError")
        ELSE IF n_train = 0 THEN Raised("ValueError")
        ELSE [k |-> "counts", n_train |-> n_train, n_test |-> n_test]

\* RandomState(seed).permutation(n): the generator is not modelled; a seed
\* selects a rotation of the rows, or a reversed rotation
rng_permutation(seed, n) ==
    [i \in 1..n |->
        LET r == (i - 1 + seed) % n
        IN  1 + (IF (seed \div n) % 2 = 1 THEN n - 1 - r ELSE r)]

\* the train rows start one position early, inside the test rows
train_indices_overlap(permutation, n_train, n_test) ==
    [i \in 1..n_train |-> permutation[n_test + i - 1]]

\* ind_test = permutation[:n_test]
\* ind_train = permutation[n_test:(n_test + n_train)]
test_indices(permutation, n_train, n_test) ==
    [i \in 1..n_test |-> permutation[i]]

train_indices(permutation, n_train, n_test) ==
    [i \in 1..n_train |-> permutation[n_test + i]]

\* the rows of d at the given positions
iloc(d, rows) ==
    DataFrame(d.index_name, [i \in 1..Len(rows) |-> d.index[rows[i]]],
              d.columns,
              [c \in ColSet(d) |-> [i \in 1..Len(rows) |-> d.data[c][rows[i]]]])

\* the four tables of the split with n.n_train and n.n_test rows
shuffle_split(features, labels, n, permutation) ==
    The({[k |-> "tuple",
          X_train |-> iloc(features, train), X_test |-> iloc(features, test),
          y_train |-> iloc(labels, train), y_test |-> iloc(labels, test)] :
            train \in {train_indices(permutation, n.n_train, n.n_test)},
            test \in {test_indices(permutation, n.n_train, n.n_test)}})

train_test_split(features, labels, train_size, test_size, random_state) ==
    The({IF IsRaised(n) THEN n
         ELSE The({shuffle_split(features, labels, n, permutation) :
                     permutation \in
                        {rng_permutation(random_state, NRows(features))}}) :
            n \in {validate_shuffle_split(NRows(features), test_size, train_size)}})

----------------------------------------------------------------------------
\* src/src/ingest_split.py

\* df[column] is a Series; isinstance(obj, cls) compares the object's class
GetItem(d, column) ==
    IF HasCol(d, column) THEN Series(d.data[column]) ELSE Raised("KeyError")

IsInstance(obj, cls) == obj.k = cls

\* Series.astype(float)
astype_float(xs) ==
    [i \in 1..Len(xs) |-> IF xs[i].k = "int" THEN F(10 * xs[i].v) ELSE xs[i]]

\* the body of a conversion loop: the test and the assignment are both on
\* df_train
ConvertColumn(train, column) ==
    IF IsRaised(train) THEN train
    ELSE IF IsRaised(GetItem(train, column)) THEN Raised("KeyError")
    ELSE IF IsInstance(GetItem(train, column), "int64")
    THEN pd_setitem(train, column, astype_float(train.data[column]))
    ELSE train

\* a conversion loop over the first n names of columns
RECURSIVE ConvertLoop(_, _, _)
ConvertLoop(train, columns, n) ==
    IF n = 0 THEN train
    ELSE The({ConvertColumn(before, columns[n]) :
                before \in {ConvertLoop(train, columns, n - 1)}})

\* the csv files: a primary table of n passengers, a holdout table
TrainColumns == <<"PassengerId", "Survived", "Pclass", "Age">>

TrainFile(n) ==
    DataFrame(NoName, RangeIndex(n), TrainColumns,
        [c \in Range(TrainColumns) |->
            CASE c = "PassengerId" -> [i \in 1..n |-> I(i)]
              [] c = "Survived" -> [i \in 1..n |-> I(i % 2)]
              [] c = "Pclass" -> [i \in 1..n |-> I(1 + (i % 3))]
              [] OTHER -> [i \in 1..n |->
                             IF i % 4 = 0 THEN NaN ELSE F(10 * (i % 7) + 5)]])

HoldoutFile(extra) ==
    LET columns == IF extra THEN <<"PassengerId", "Pclass", "Age", "Cabin">>
                   ELSE <<"PassengerId", "Pclass", "Age">>
    IN  DataFrame(NoName, RangeIndex(MaxRows), columns,
            [c \in Range(columns) |->
                CASE c = "PassengerId" -> [i \in 1..MaxRows |-> I(900 + i)]
                  [] c = "Pclass" -> [i \in 1..MaxRows |-> I(1 + (i % 3))]
                  [] c = "Age" -> [i \in 1..MaxRows |-> F(10 * i + 5)]
                  [] OTHER -> [i \in 1..MaxRows |-> S(<<"C">>)]])

RowCounts == (1..MaxSplitRows) \cup {ScenarioRows}
Percents == {20, 42, 50, 58, 80}
SizeChoices ==
    {None} \cup {Fraction(h) : h \in Percents} \cup {I(c) : c \in 1..MaxCount}

InitIngest ==
    /\ TransformsIdle
    /\ PipelineIdle
    /\ log = <<>>
    /\ \E n \in RowCounts, extra \in BOOLEAN :
          files = [train_test_raw_path |-> TrainFile(n),
                   holdout_raw_path |-> HoldoutFile(extra)]
    /\ target \in {"Survived", "Missing"}
    /\ ingest_split_parameters \in
          [train_size : SizeChoices, test_size : SizeChoices,
           random_state : 0..MaxSeed]
    /\ mlflow_params = <<>>
    /\ df_train = None
    /\ df_holdout = None
    /\ Xy = None
    /\ returned = Pending
    /\ ipc = "log_params"

\* logger.info, then the three mlflow.log_param calls
IngestLogParams ==
    /\ ipc = "log_params"
    /\ log' = Append(log, Info("ingest_split"))
    /\ mlflow_params' =
          <<<<"train_size", ingest_split_parameters.train_size>>,
            <<"test_size", ingest_split_parameters.test_size>>,
            <<"random_state", ingest_split_parameters.random_state>>>>
    /\ ipc' = "read_csv"
    /\ UNCHANGED <<tvars, pvars, files, target, ingest_split_parameters,
                   df_train, df_holdout, Xy, returned>>

\* the two pd.read_csv calls
IngestReadCsv ==
    /\ ipc = "read_csv"
    /\ df_train' = files.train_test_raw_path
    /\ df_holdout' = files.holdout_raw_path
    /\ ipc' = "convert"
    /\ UNCHANGED <<tvars, pvars, log, files, target, ingest_split_parameters,
                   mlflow_params, Xy, returned>>

\* the two "Convert ints to floats" loops: over df_train's columns, then
\* over df_holdout's columns, each testing and assigning df_train[column]
IngestConvert ==
    /\ ipc = "convert"
    /\ \E second \in
            {ConvertLoop(first, df_holdout.columns, Len(df_holdout.columns)) :
                first \in {ConvertLoop(df_train, df_train.columns,
                                       Len(df_train.columns))}} :
           IF IsRaised(second)
           THEN /\ returned' = second
                /\ ipc' = "raised"
                /\ UNCHANGED df_train
           ELSE /\ df_train' = second
                /\ ipc' = "select"
                /\ UNCHANGED returned
    /\ UNCHANGED <<tvars, pvars, log, files, target, ingest_split_parameters,
                   mlflow_params, df_holdout, Xy>>

\* X = df_train.drop(target, axis=1); y = df_train[[target]];
\* X_holdout = df_holdout
IngestSelect ==
    /\ ipc = "select"
    /\ \E features \in {pd_drop(df_train, <<target>>)} :
       IF IsRaised(features)
       THEN /\ returned' = features
            /\ ipc' = "raised"
            /\ UNCHANGED Xy
       ELSE /\ Xy' = [X |-> features,
                      y |-> pd_drop(df_train,
                               SelectSeq(df_train.columns, LAMBDA c : c # target)),
                      X_holdout |-> df_holdout]
            /\ ipc' = "split"
            /\ UNCHANGED returned
    /\ UNCHANGED <<tvars, pvars, log, files, target, ingest_split_parameters,
                   mlflow_params, df_train, df_holdout>>

\* train_test_split(...) and the return of the 5-tuple
IngestTrainTestSplit ==
    /\ ipc = "split"
    /\ \E parts \in {train_test_split(Xy.X, Xy.y,
                            ingest_split_parameters.train_size,
                            ingest_split_parameters.test_size,
                            ingest_split_parameters.random_state)} :
           IF IsRaised(parts)
           THEN /\ returned' = parts
                /\ ipc' = "raised"
           ELSE /\ returned' = [k |-> "tuple",
                                X_train |-> parts.X_train, X_test |-> parts.X_test,
                                y_train |-> parts.y_train, y_test |-> parts.y_test,
                                X_holdout |-> Xy.X_holdout]
                /\ ipc' = "returned"
    /\ UNCHANGED <<tvars, pvars, log, files, target, ingest_split_parameters,
                   mlflow_params, df_train, df_holdout, Xy>>

NextIngest ==
    \/ IngestLogParams
    \/ IngestReadCsv
    \/ IngestConvert
    \/ IngestSelect
    \/ IngestTrainTestSplit

SpecIngest == InitIngest /\ [][NextIngest]_vars

----------------------------------------------------------------------------
\* Claims about the transforms, checked under Spec

Called(f) == call.f = f
LoggedError(f) == Error(f) \in Range(log)

\* C7: for a column C present in T, drop_columns(T, [C]) returns a table whose
\* column set is T's columns minus C, with the row count, the row keys and the
\* values of every remaining column unchanged.
C7_DropColumnsFrame ==
    (/\ Called("drop_columns")
     /\ Len(call.drop_column_names) = 1
     /\ HasCol(df, call.drop_column_names[1]))
    => /\ IsDataFrame(ret)
       /\ ColSet(ret) = ColSet(df) \ {call.drop_column_names[1]}
       /\ Len(ret.columns) = Len(df.columns) - 1
       /\ NRows(ret) = NRows(df)
       /\ ret.index = df.index
       /\ ret.index_name = df.index_name
       /\ \A c \in ColSet(ret) : ret.data[c] = df.data[c]

C7_Witness ==
    /\ Called("drop_columns")
    /\ call.drop_column_names = <<"Name">>
    /\ IsDataFrame(ret)
    /\ NRows(df) = MaxRows
    /\ ColSet(ret) = {"PassengerId", "Age", "TitleCat", "SibSp"}

\* text holds, with its space at position i, a word of n letters that a space
\* precedes and a period follows
IsOccurrence(text, i, n) ==
    /\ n >= 1
    /\ i + n + 1 <= Len(text)
    /\ text[i] = " "
    /\ \A j \in (i + 1)..(i + n) : text[j] \in Letters
    /\ text[i + n + 1] = "."

HasOccurrence(text) ==
    \E i \in 1..Len(text), n \in 1..Len(text) : IsOccurrence(text, i, n)

\* tok is the word of the first occurrence, or empty when there is none
IsToken(text, tok) ==
    \/ ~HasOccurrence(text) /\ tok = <<>>
    \/ \E i \in 1..Len(text), n \in 1..Len(text) :
          /\ IsOccurrence(text, i, n)
          /\ tok = SubSeq(text, i + 1, i + n)
          /\ \A h \in 1..(i - 1), m \in 1..Len(text) : ~IsOccurrence(text, h, m)

Words(text) ==
    {<<>>} \cup {SubSeq(text, a, b) : a \in 1..Len(text), b \in 1..Len(text)}

\* C5: create_title_cat sets, in every row, the destination to the code of
\* the word that follows a space and precedes a period at their first
\* occurrence in the source text (the empty text when there is none), and to
\* that word itself when title_codes has no such key.
C5_TitleCategory ==
    (/\ Called("create_title_cat")
     /\ HasCol(df, call.source_column)
     /\ \A i \in 1..NRows(df) : df.data[call.source_column][i].k = "str")
    => /\ IsDataFrame(ret)
       /\ NRows(ret) = NRows(df)
       /\ HasCol(ret, call.dest_column)
       /\ \A i \in 1..NRows(df) :
            LET text == df.data[call.source_column][i].v IN
            \E tok \in Words(text) :
               /\ IsToken(text, tok)
               /\ ret.data[call.dest_column][i] =
                    IF S(tok) \in DOMAIN call.title_codes
                    THEN call.title_codes[S(tok)] ELSE S(tok)

\* a call on two rows: "B, Mr. O" coded gen_male, and "X r. M." whose first
\* title r has no code and passes through
C5_Witness ==
    /\ Called("create_title_cat")
    /\ call.source_column = "Name"
    /\ IsDataFrame(ret)
    /\ NRows(df) = 2
    /\ df.data["Name"][1] = S(<<"B", ",", " ", "M", "r", ".", " ", "O">>)
    /\ df.data["Name"][2] = S(<<"X", " ", "r", ".", " ", "M", ".">>)
    /\ ret.data[call.dest_column][1] = Str2("g", "m")
    /\ ret.data[call.dest_column][2] = S(<<"r">>)

\* the rows impute_age reads are there and numeric
ImputeAgeReadable ==
    /\ Called("impute_age")
    /\ HasCol(df, call.source_column)
    /\ HasCol(df, call.title_column)
    /\ \A i \in 1..NRows(df) :
          df.data[call.source_column][i].k \in {"nan", "int", "float"}

\* x is the float or int old coerced to a whole number
IsWhole(x, old) ==
    /\ x.k = "int"
    /\ \/ old.k = "int" /\ x.v = old.v
       \/ /\ old.k = "float"
          /\ 10 * x.v <= old.v + 9 /\ old.v - 9 <= 10 * x.v
          /\ (old.v >= 0 => 10 * x.v <= old.v)
          /\ (old.v <= 0 => 10 * x.v >= old.v)

RowImputed(i) ==
    LET old == df.data[call.source_column][i]
        cat == df.data[call.title_column][i]
        new == ret.data[call.source_column][i]
    IN  /\ ~pd_isnull(old) => IsWhole(new, old)
        /\ (pd_isnull(old) /\ cat \in DOMAIN call.age_codes)
              => new = call.age_codes[cat]

\* C4: impute_age returns a table with as many rows as its input, in which
\* every non-missing source value is coerced to a whole number and every
\* missing one whose category is a key of age_codes holds that key's value.
C4_ImputeAge ==
    ImputeAgeReadable
    => /\ IsDataFrame(ret)
       /\ NRows(ret) = NRows(df)
       /\ \A i \in 1..NRows(df) : RowImputed(i)

Unmapped(i) ==
    /\ pd_isnull(df.data[call.source_column][i])
    /\ df.data[call.title_column][i] \notin DOMAIN call.age_codes

\* C10: when a row has a missing source value and a category that is no key
\* of age_codes, impute_age still returns a table with the same rows, in
\* which every other row is imputed or coerced as usual.
C10_UnmappedRowOnly ==
    (ImputeAgeReadable /\ \E i \in 1..NRows(df) : Unmapped(i))
    => /\ IsDataFrame(ret)
       /\ NRows(ret) = NRows(df)
       /\ \A i \in 1..NRows(df) : ~Unmapped(i) => RowImputed(i)

\* C9: when the table operation of a transform fails, the transform logs the
\* failure and returns None to its caller; it does not raise.
C9_FailureReturnsNone ==
    \A f \in {"set_df_index", "drop_columns", "create_title_cat", "impute_age",
              "create_family_size"} :
        (Called(f) /\ LoggedError(f)) => ret = None

----------------------------------------------------------------------------
\* Claims about the pipeline, checked under SpecPipeline

\* f applied to what the step before gave, unless that step raised
Then(x, f(_)) == IF IsRaised(x) THEN x ELSE f(x).ret

\* the table folded through the four functions, each with its bound arguments
Folded ==
    LET kw == pipeline_parameters
        a == set_df_index(X, kw.set_df_index_kw_args.df_index_col).ret
        b == Then(a, LAMBDA x : create_title_cat(x,
                    kw.create_title_cat_kw_args.source_column,
                    kw.create_title_cat_kw_args.dest_column,
                    kw.create_title_cat_kw_args.title_codes))
        c == Then(b, LAMBDA x : impute_age(x,
                    kw.impute_age_kw_args.source_column,
                    kw.impute_age_kw_args.title_column,
                    kw.impute_age_kw_args.age_codes))
    IN  Then(c, LAMBDA x : drop_columns(x,
                    kw.drop_columns_kw_args.drop_column_names))

StepOrder == <<"set_df_index", "create_title_cat", "impute_age", "drop_columns">>

Finished == pc \in {"returned", "raised"}

\* C1: fit_transform gives what folding the table through set_df_index,
\* create_title_cat, impute_age and drop_columns in this order gives; the steps
\* run in that order, none skipped or repeated, each on the output of the one
\* before it.
C1_PipelineIsFold ==
    /\ \A i \in 1..Len(trace) :
          /\ i <= Len(StepOrder)
          /\ trace[i].func = StepOrder[i]
          /\ trace[i].input = IF i = 1 THEN X ELSE trace[i - 1].output
    /\ Finished =>
          /\ result = Folded
          /\ result = trace[Len(trace)].output
          /\ pc = "returned" => Len(trace) = Len(StepOrder)

\* a run of all four steps that gives a table whose missing age was imputed
C1_Witness ==
    /\ pc = "returned"
    /\ IsDataFrame(result)
    /\ Len(trace) = 4
    /\ NRows(X) = 2
    /\ pd_isnull(X.data["Age"][1])
    /\ result.data["Age"][1] = I(30)
    /\ ~HasCol(result, "Name")

\* C2: when a step fails the run aborts: no later step runs and the caller
\* gets a failure, not a normal return.
C2_FailureAborts ==
    \A i \in 1..Len(trace) :
        trace[i].failed => (i = Len(trace) /\ pc = "raised")

Distinct(xs) == \A i, j \in 1..Len(xs) : xs[i] = xs[j] => i = j

\* C6: for a column C of T with unique values, set_df_index(T, C) gives a
\* table keyed by the values of C, its row key named C, its columns T's minus
\* C and its row count T's; a table the whole pipeline returns is still keyed
\* by the configured column.
C6_SetIndex ==
    LET C == pipeline_parameters.set_df_index_kw_args.df_index_col IN
    /\ (Len(trace) >= 1 /\ HasCol(X, C) /\ Distinct(X.data[C])) =>
          LET out == trace[1].output IN
          /\ IsDataFrame(out)
          /\ Range(out.index) = Range(X.data[C])
          /\ out.index = X.data[C]
          /\ out.index_name = C
          /\ ColSet(out) = ColSet(X) \ {C}
          /\ \A c \in ColSet(out) : out.data[c] = X.data[c]
          /\ NRows(out) = NRows(X)
    /\ (pc = "returned" /\ IsDataFrame(result)) => result.index_name = C

C6_Witness ==
    /\ pc = "returned"
    /\ IsDataFrame(result)
    /\ NRows(X) = 2
    /\ result.index_name = "PassengerId"
    /\ result.index = <<I(1), I(2)>>
    /\ trace[1].output.columns = <<"Name", "Age">>

----------------------------------------------------------------------------
\* Properties of ingest_split, checked under SpecIngest

Split == ipc = "returned"

RowKeys(d) == Range(d.index)

\* row i of part is a row of the primary table: same key, same values
IsRowOfPrimary(part, i) ==
    \E j \in 1..NRows(df_train) :
        /\ df_train.index[j] = part.index[i]
        /\ \A c \in ColSet(part) : part.data[c][i] = df_train.data[c][j]

\* the rows of the primary table in neither partition
Excluded ==
    RowKeys(df_train) \ (RowKeys(returned.X_train) \cup RowKeys(returned.X_test))

SizesSumToOne ==
    /\ ingest_split_parameters.train_size.k = "fraction"
    /\ ingest_split_parameters.test_size.k = "fraction"
    /\ ingest_split_parameters.train_size.v
          + ingest_split_parameters.test_size.v = 100

EightyTwenty ==
    /\ NRows(df_train) = 100
    /\ ingest_split_parameters.train_size = Fraction(80)
    /\ ingest_split_parameters.test_size = Fraction(20)

\* disjoint partitions of rows of the primary table, features and target
\* aligned, and the counts adding up to the rows not excluded
Partitioned ==
    /\ RowKeys(returned.X_train) \cap RowKeys(returned.X_test) = {}
    /\ Distinct(returned.X_train.index)
    /\ Distinct(returned.X_test.index)
    /\ \A i \in 1..NRows(returned.X_train) :
          IsRowOfPrimary(returned.X_train, i) /\ IsRowOfPrimary(returned.y_train, i)
    /\ \A i \in 1..NRows(returned.X_test) :
          IsRowOfPrimary(returned.X_test, i) /\ IsRowOfPrimary(returned.y_test, i)
    /\ returned.y_train.index = returned.X_train.index
    /\ returned.y_test.index = returned.X_test.index
    /\ ColSet(returned.X_train) = ColSet(df_train) \ {target}
    /\ ColSet(returned.y_train) = {target}
    /\ NRows(returned.X_train) + NRows(returned.X_test)
          = NRows(df_train) - Cardinality(Excluded)
    /\ EightyTwenty =>
          NRows(returned.X_train) = 80 /\ NRows(returned.X_test) = 20

\* C3 (as amended): an accepted split gives disjoint train and test
\* partitions of rows of the primary table, features and target covering the
\* same rows, the two counts adding up to the primary table's row count minus
\* the rows excluded from both; when train_size + test_size = 1.0 at most one
\* row is excluded, and 100 rows with 0.8/0.2 give 80 and 20.
C3_SplitPartition ==
    Split => (Partitioned /\ (SizesSumToOne => Cardinality(Excluded) <= 1))

C3_Witness ==
    /\ Split
    /\ EightyTwenty
    /\ NRows(returned.X_train) = 80
    /\ NRows(returned.X_test) = 20
    /\ Excluded = {}

\* C3 (as stated): the same, with no row excluded whenever
\* train_size + test_size = 1.0.
C3_NoRowExcluded ==
    Split => (Partitioned /\ (SizesSumToOne => Excluded = {}))

IntegerTyped(d, c) == \E i \in 1..NRows(d) : d.data[c][i].k = "int"

\* C8: after ingest_split returns, no column of the train, test or holdout
\* feature tables is integer-typed: every integer-valued column of either
\* file was converted to floating point before the split.
C8_IntsBecomeFloats ==
    Split =>
        \A d \in {returned.X_train, returned.X_test, returned.X_holdout} :
            \A c \in ColSet(d) : ~IntegerTyped(d, c)

====
